---------------------------- MODULE Spec2Model ----------------------------
(***************************************************************************)
(* A model of streamlit_app.py: the NCREIF returns connector ncreif_api    *)
(* (the fan-out of one call into HTTP sub-requests) and the assistant      *)
(* polling loop ThreadRunner.run_thread with its caller                    *)
(* run_query_and_display_results.                                          *)
(*                                                                         *)
(* Strings that the code parses are sequences of one-character strings;    *)
(* Python's None is the value NoneVal.                                     *)
(***************************************************************************)
EXTENDS Integers, Sequences, FiniteSets, TLC

\* ------------------------------------------------------------------ bounds
MaxPtypesLen == 3
MaxCbsasLen == 2
\* The sub-requests of one call that the upstream answers with a failure status.
MaxNon200 == 1

\* ------------------------------------------------- values of the program
NoneVal == <<"None">>

\* def ncreif_api(ptypes, cbsas=None, begq='20231', endq='20234')
DefaultBegq == 20231
DefaultEndq == 20234

PtypeChars == {"A", ","}
CbsaChars == {"1", ","}

RECURSIVE StringsUpTo(_, _)
StringsUpTo(chars, n) ==
    IF n = 0 THEN {<<>>}
    ELSE LET shorter == StringsUpTo(chars, n - 1)
         IN  shorter \cup {Append(s, c) : s \in shorter, c \in chars}

PtypesArgs == StringsUpTo(PtypeChars, MaxPtypesLen)
CbsasArgs == {NoneVal} \cup StringsUpTo(CbsaChars, MaxCbsasLen)
\* (begq, endq): the defaults, and a range of one quarter.
QuarterArgs == {<<DefaultBegq, DefaultEndq>>, <<20232, 20232>>}

\* ---------------------------------------------------------------- helpers
RECURSIVE NumCommas(_)
NumCommas(s) ==
    IF s = <<>> THEN 0
    ELSE (IF Head(s) = "," THEN 1 ELSE 0) + NumCommas(Tail(s))

RECURSIVE FirstComma(_, _)
FirstComma(s, k) ==
    IF k > Len(s) THEN 0
    ELSE IF s[k] = "," THEN k ELSE FirstComma(s, k + 1)

\* A variant of str.split that drops empty fields, as str.split() without a
\* separator does.
RECURSIVE SplitDropEmpty(_)
SplitDropEmpty(s) ==
    LET k == FirstComma(s, 1)
    IN  IF k = 0 THEN (IF s = <<>> THEN <<>> ELSE <<s>>)
        ELSE (IF k = 1 THEN <<>> ELSE <<SubSeq(s, 1, k - 1)>>)
             \o SplitDropEmpty(SubSeq(s, k + 1, Len(s)))

\* str.split(","): the fields between the commas, empty fields kept.
RECURSIVE Split(_)
Split(s) ==
    LET k == FirstComma(s, 1)
    IN  IF k = 0 THEN <<s>>
        ELSE <<SubSeq(s, 1, k - 1)>> \o Split(SubSeq(s, k + 1, Len(s)))

PtypesList(p) == Split(p)

CbsasList(c) == IF c # NoneVal THEN Split(c) ELSE <<NoneVal>>

\* The Where clause with a strict lower bound, as in the retired revision
\* of ncreif_api.
NcreifUrlStrictBegin(ptype, cbsa, b, e) ==
    [ PropertyType |-> ptype, BegOp |-> ">", Begq |-> b, EndOp |-> "<=", Endq |-> e,
      CBSA |-> cbsa,
      GroupBy |-> IF cbsa # NoneVal THEN <<"PropertyType", "CBSA", "YYYYQ">>
                  ELSE <<"PropertyType", "YYYYQ">> ]

\* The URL of one sub-request, kept as the parts the f-strings put into it.
NcreifUrl(ptype, cbsa, b, e) ==
    [ PropertyType |-> ptype, BegOp |-> ">=", Begq |-> b, EndOp |-> "<=", Endq |-> e,
      CBSA |-> cbsa,
      GroupBy |-> IF cbsa # NoneVal THEN <<"PropertyType", "CBSA", "YYYYQ">>
                  ELSE <<"PropertyType", "YYYYQ">> ]

\* ------------------------------------------------------- the upstream API
UpstreamQuarters == <<20224, 20231, 20232, 20233, 20234>>
UpstreamPtypes == {<<"A">>}
UpstreamCbsas == {<<"1">>}

Compare(op, a, b) ==
    CASE op = ">=" -> a >= b
      [] op = ">"  -> a > b
      [] op = "<=" -> a <= b
      [] op = "<"  -> a < b

\* Whether the Where clause of url keeps a row of quarter q.
InFilter(url, q) ==
    Compare(url.BegOp, q, url.Begq) /\ Compare(url.EndOp, q, url.Endq)

\* NewDataSet.Result1 of the upstream's answer to url: one row per quarter
\* the filter keeps, for a property type (and CBSA) the upstream has.
UpstreamResult1(url) ==
    LET Keep(q) == InFilter(url, q)
        quarters == SelectSeq(UpstreamQuarters, Keep)
    IN  IF url.PropertyType \in UpstreamPtypes
           /\ (url.CBSA = NoneVal \/ url.CBSA \in UpstreamCbsas)
        THEN [k \in 1..Len(quarters) |->
                [PropertyType |-> url.PropertyType, CBSA |-> url.CBSA,
                 YYYYQ |-> quarters[k]]]
        ELSE <<>>

\* ------------------------------------------------------------------ state
VARIABLES
    n_pc,             \* ncreif_api: "idle", "loop", "returned", "raised"
    ptypes, cbsas, begq, endq,
    ptypes_list, cbsas_list,
    ip, ic,           \* the positions of the two for loops
    aggregated_data,
    requests,         \* the URLs handed to requests.get, in order
    responses,        \* what came back for each, in order
    printed           \* the (ptype, cbsa) pairs of the failure messages printed

nvars == <<n_pc, ptypes, cbsas, begq, endq, ptypes_list, cbsas_list, ip, ic,
           aggregated_data, requests, responses, printed>>

NInit ==
    /\ n_pc = "idle"
    /\ ptypes = <<>> /\ cbsas = NoneVal
    /\ begq = DefaultBegq /\ endq = DefaultEndq
    /\ ptypes_list = <<>> /\ cbsas_list = <<>>
    /\ ip = 1 /\ ic = 1
    /\ aggregated_data = <<>>
    /\ requests = <<>> /\ responses = <<>> /\ printed = <<>>

\* ============================================================ ThreadRunner
\* ------------------------------------------------------------------ bounds
MaxQueries == 2
MaxToolCalls == 2

\* ------------------------------------------------- values of the program
NoThread == 0
NoException == [exc |-> "none", at |-> "none"]
NoRun == [status |-> "none", tool_calls |-> <<>>]

Placeholder == "Raw data placeholder or fetch logic here"
PleaseEnter == "Please enter a query."
NoResults == "No results found."

Queries == {"", "q1", "q2"}

\* self.available_functions, and the signatures of the two callables.
AvailableFunctions == {"ncreif_api", "census_pop"}

Required(name) ==
    CASE name = "ncreif_api" -> {"ptypes"}
      [] name = "census_pop" -> {"cbsa", "year"}

Params(name) ==
    CASE name = "ncreif_api" -> {"ptypes", "cbsas", "begq", "endq"}
      [] name = "census_pop" -> {"cbsa", "year"}

\* Whether f(**args) binds: every parameter without a default is given and
\* no key is foreign to the signature. Otherwise the call raises TypeError.
Binds(name, keys) == Required(name) \subseteq keys /\ keys \subseteq Params(name)

\* What the callable hands back when it returns: ncreif_api a list of rows
\* (line 60), census_pop an int (line 65).
ToolReturn(name) ==
    CASE name = "ncreif_api" -> [type |-> "list", value |-> <<"row">>]
      [] name = "census_pop" -> [type |-> "int", value |-> 6000000]

JsonDumps(response) ==
    CASE response.type = "list" -> "[\"row\"]"
      [] response.type = "int" -> "6000000"

\* Line 200: json.dumps unless the response is a str already.
ToolOutput(response) ==
    IF response.type = "str" THEN response.value ELSE JsonDumps(response)

\* The tool calls the provider may ask for: a name the runner has or has not,
\* and an arguments string that is no JSON, or a JSON object with these keys.
NotJson == [json |-> FALSE, keys |-> {}]
JsonObject(ks) == [json |-> TRUE, keys |-> ks]
Request(nm, ar) == [name |-> nm, arguments |-> ar]
ToolRequests ==
    { Request("ncreif_api", JsonObject({"ptypes"})),
      Request("ncreif_api", JsonObject({})),
      Request("ncreif_api", JsonObject({"ptypes", "bogus"})),
      Request("ncreif_api", NotJson),
      Request("census_pop", JsonObject({"cbsa", "year"})),
      Request("web_search", JsonObject({})),
      Request("web_search", NotJson) }

CallId(i) == IF i = 1 THEN "call_a" ELSE IF i = 2 THEN "call_b" ELSE "call_c"

ToolCallLists ==
    UNION {
      {[i \in 1..n |-> [id |-> CallId(i), name |-> rq[i].name,
                        arguments |-> rq[i].arguments]] :
          rq \in [1..n -> ToolRequests]}
      : n \in 1..MaxToolCalls }

Reverse(s) == [i \in 1..Len(s) |-> s[Len(s) + 1 - i]]

\* ------------------------------------------------------------------ state
VARIABLES
    pc,            \* where run_query_and_display_results / run_thread stands
    query,         \* st.session_state.query
    results,       \* st.session_state['results'], "unset" before the first store
    thread,        \* self.thread: NoThread, or the id of the provider's thread
    messages,      \* self.messages
    run,           \* the local variable run: the last retrieved snapshot
    tc,            \* the position of the for loop over the tool calls
    tool_outputs,
    threads,       \* the provider's threads: threads[id] is the transcript
    run_status,    \* the provider's run of the thread
    run_calls,     \* the tool calls the provider waits for
    invoked,       \* the callables invoked in this round, in order
    run_outputs,   \* the lists the provider was handed by submit_tool_outputs
    raised,        \* the exception that left the last handler, and where
    nevents        \* the on_change events so far

rvars == <<pc, query, results, thread, messages, run, tc, tool_outputs, threads,
           run_status, run_calls, invoked, run_outputs, raised, nevents>>

vars == <<nvars, rvars>>

\* Lines 141-145 and the start of the app.
RInit ==
    /\ pc = "idle"
    /\ query = ""
    /\ results = "unset"
    /\ thread = NoThread
    /\ messages = <<>>
    /\ run = NoRun
    /\ tc = 1
    /\ tool_outputs = <<>>
    /\ threads = <<>>
    /\ run_status = "none"
    /\ run_calls = <<>>
    /\ invoked = <<>>
    /\ run_outputs = <<>>
    /\ raised = NoException
    /\ nevents = 0

\* ------------------------------------------------------------- ncreif_api
\* Lines 29-37: the call binds its arguments and splits the two lists. One
\* call is followed to its end.
NcreifCall(p, c, b, e) ==
    /\ n_pc = "idle"
    /\ ptypes' = p /\ cbsas' = c /\ begq' = b /\ endq' = e
    /\ ptypes_list' = PtypesList(p)
    /\ cbsas_list' = CbsasList(c)
    /\ ip' = 1 /\ ic' = 1
    /\ aggregated_data' = <<>>
    /\ requests' = <<>> /\ responses' = <<>> /\ printed' = <<>>
    /\ n_pc' = IF PtypesList(p) = <<>> \/ CbsasList(c) = <<>>
               THEN "returned"    \* for loops over nothing: line 60 at once
               ELSE "loop"
    /\ UNCHANGED rvars

CurrentUrl == NcreifUrl(ptypes_list[ip], cbsas_list[ic], begq, endq)

\* The end of one pass of the inner loop: the next (ptype, cbsa) pair, or
\* the return of aggregated_data after the last one.
NextPair ==
    IF ic < Len(cbsas_list)
    THEN ic' = ic + 1 /\ ip' = ip /\ n_pc' = "loop"
    ELSE IF ip < Len(ptypes_list)
         THEN ic' = 1 /\ ip' = ip + 1 /\ n_pc' = "loop"
         ELSE ic' = ic /\ ip' = ip /\ n_pc' = "returned"

\* Lines 52-56: status 200 and the expected envelope.
NcreifGetOk ==
    /\ n_pc = "loop"
    /\ requests' = Append(requests, CurrentUrl)
    /\ responses' = Append(responses, "200")
    /\ aggregated_data' = aggregated_data \o UpstreamResult1(CurrentUrl)
    /\ NextPair
    /\ UNCHANGED <<ptypes, cbsas, begq, endq, ptypes_list, cbsas_list, printed>>
    /\ UNCHANGED rvars

\* Lines 57-58: any other status is printed and the loop goes on.
NcreifGetNon200 ==
    /\ n_pc = "loop"
    /\ Cardinality({k \in 1..Len(responses) : responses[k] = "non200"}) < MaxNon200
    /\ requests' = Append(requests, CurrentUrl)
    /\ responses' = Append(responses, "non200")
    /\ printed' = Append(printed, <<ptypes_list[ip], cbsas_list[ic]>>)
    /\ NextPair
    /\ UNCHANGED <<ptypes, cbsas, begq, endq, ptypes_list, cbsas_list, aggregated_data>>
    /\ UNCHANGED rvars

\* Line 55: status 200 with a body that is not JSON, or lacks NewDataSet or
\* Result1: response.json() or the subscripts raise, and nothing catches it.
NcreifGetMalformed ==
    /\ n_pc = "loop"
    /\ requests' = Append(requests, CurrentUrl)
    /\ responses' = Append(responses, "malformed")
    /\ n_pc' = "raised"
    /\ UNCHANGED <<ptypes, cbsas, begq, endq, ptypes_list, cbsas_list, ip, ic,
                   aggregated_data, printed>>
    /\ UNCHANGED rvars

\* Line 52: requests.get itself raises (no connection), and nothing catches it.
NcreifGetNetError ==
    /\ n_pc = "loop"
    /\ requests' = Append(requests, CurrentUrl)
    /\ responses' = Append(responses, "neterror")
    /\ n_pc' = "raised"
    /\ UNCHANGED <<ptypes, cbsas, begq, endq, ptypes_list, cbsas_list, ip, ic,
                   aggregated_data, printed>>
    /\ UNCHANGED rvars

NNext ==
    \/ \E p \in PtypesArgs, c \in CbsasArgs, q \in QuarterArgs :
          NcreifCall(p, c, q[1], q[2])
    \/ NcreifGetOk
    \/ NcreifGetNon200
    \/ NcreifGetMalformed
    \/ NcreifGetNetError




\* ------------------------------------------------ run_thread and its caller
Active == {"queued", "in_progress", "requires_action", "cancelling"}
StillRunning == {"queued", "in_progress", "cancelling"}

\* elif run.status == 'completed', a variant that takes a failed run too.
IsCompletedOrFailed(status) == status \in {"completed", "failed"}

\* Line 215: elif run.status == 'completed'
IsCompleted(status) == status = "completed"

\* run_thread is left (return or exception): its local variables are gone.
ExitLocals == run' = NoRun /\ tc' = 1 /\ tool_outputs' = <<>>

\* An exception leaves run_thread and run_query_and_display_results: nothing
\* is stored, and the app waits for the next event.
Raise(exc) ==
    /\ raised' = [exc |-> exc, at |-> pc]
    /\ pc' = "idle"
    /\ ExitLocals

\* if not self.thread, a variant that is always true.
NeedsThreadAlways == TRUE

\* Line 151: if not self.thread
NeedsThread == thread = NoThread

\* if query, a variant that lets the empty query through.
IsQueryAlways(q) == TRUE

\* Line 235: if query
IsQuery(q) == q # ""

\* Lines 232-247, up to the first call of the client: the on_change event.
RunQuery(q) ==
    /\ pc = "idle"
    /\ nevents < MaxQueries
    /\ nevents' = nevents + 1
    /\ query' = q
    /\ raised' = NoException
    /\ invoked' = <<>>
    /\ IF IsQuery(q)
       THEN /\ pc' = IF NeedsThread THEN "create_thread" ELSE "create_message"
            /\ UNCHANGED results
       ELSE /\ pc' = "idle"
            /\ results' = PleaseEnter
    /\ UNCHANGED <<thread, messages, run, tc, tool_outputs, threads, run_status,
                   run_calls, run_outputs>>
    /\ UNCHANGED nvars

\* Lines 147-148.
CreateThread ==
    /\ pc = "create_thread"
    /\ threads' = Append(threads, <<>>)
    /\ thread' = Len(threads) + 1
    /\ pc' = "create_message"
    /\ UNCHANGED <<query, results, messages, run, tc, tool_outputs, run_status,
                   run_calls, invoked, run_outputs, raised, nevents>>
    /\ UNCHANGED nvars

\* Lines 154-158. The provider takes no message while a run is active.
CreateMessage ==
    /\ pc = "create_message"
    /\ run_status \notin Active
    /\ threads' = [threads EXCEPT ![thread] =
                      Append(@, [role |-> "user", content |-> query])]
    /\ pc' = "create_run"
    /\ UNCHANGED <<query, results, thread, messages, run, tc, tool_outputs,
                   run_status, run_calls, invoked, run_outputs, raised, nevents>>
    /\ UNCHANGED nvars

\* Lines 160-183.
CreateRun ==
    /\ pc = "create_run"
    /\ run_status \notin Active
    /\ run_status' = "queued"
    /\ run_calls' = <<>>
    /\ run' = [status |-> "queued", tool_calls |-> <<>>]
    /\ pc' = "sleep"
    /\ UNCHANGED <<query, results, thread, messages, tc, tool_outputs, threads,
                   invoked, run_outputs, raised, nevents>>
    /\ UNCHANGED nvars

\* Line 186.
Sleep ==
    /\ pc = "sleep"
    /\ pc' = "retrieve"
    /\ UNCHANGED <<query, results, thread, messages, run, tc, tool_outputs, threads,
                   run_status, run_calls, invoked, run_outputs, raised, nevents>>
    /\ UNCHANGED nvars

Snapshot == [status |-> run_status, tool_calls |-> run_calls]

\* Line 187: run is rebound to what the provider holds now. tool_outputs of
\* an earlier round is never read again (line 190 rebinds it first), and
\* the records of the round start afresh.
Retrieve ==
    /\ pc = "retrieve"
    /\ run' = Snapshot
    /\ tool_outputs' = <<>>
    /\ tc' = 1
    /\ invoked' = <<>>

\* Lines 187-190.
RetrieveRequiresAction ==
    /\ Retrieve
    /\ run_status = "requires_action"
    /\ pc' = "tools"
    /\ UNCHANGED <<query, results, thread, messages, threads, run_status, run_calls,
                   run_outputs, raised, nevents>>
    /\ UNCHANGED nvars

\* Lines 187, 215: the run is completed, the messages are listed next.
RetrieveCompleted ==
    /\ Retrieve
    /\ IsCompleted(run_status)
    /\ pc' = "list"
    /\ UNCHANGED <<query, results, thread, messages, threads, run_status, run_calls,
                   run_outputs, raised, nevents>>
    /\ UNCHANGED nvars

\* Lines 187, 219-220.
RetrieveStillRunning ==
    /\ Retrieve
    /\ run_status \in StillRunning
    /\ pc' = "sleep"
    /\ UNCHANGED <<query, results, thread, messages, threads, run_status, run_calls,
                   run_outputs, raised, nevents>>
    /\ UNCHANGED nvars

\* Lines 187, 222-224, then 237-244: any other status is printed, the loop
\* is left, run_thread returns None and the caller stores NoResults.
RetrieveUnhandled ==
    /\ pc = "retrieve"
    /\ run_status # "requires_action"
    /\ ~IsCompleted(run_status)
    /\ run_status \notin StillRunning
    /\ ExitLocals
    /\ results' = NoResults
    /\ pc' = "idle"
    /\ UNCHANGED <<query, thread, messages, threads, run_status, run_calls,
                   invoked, run_outputs, raised, nevents>>
    /\ UNCHANGED nvars

ToolCall == run.tool_calls[tc]

InToolLoop == pc = "tools" /\ tc <= Len(run.tool_calls)

\* Line 195: json.loads raises on an arguments string that is no JSON.
ToolArgsNotJson ==
    /\ InToolLoop
    /\ ~ToolCall.arguments.json
    /\ Raise("JSONDecodeError")
    /\ UNCHANGED <<query, results, thread, messages, threads, run_status, run_calls,
                   invoked, run_outputs, nevents>>
    /\ UNCHANGED nvars

\* Line 199: the call of the function raises TypeError when the arguments
\* do not bind to its signature; the body of the function never starts.
ToolBindFails ==
    /\ InToolLoop
    /\ ToolCall.arguments.json
    /\ ToolCall.name \in AvailableFunctions
    /\ ~Binds(ToolCall.name, ToolCall.arguments.keys)
    /\ Raise("TypeError")
    /\ UNCHANGED <<query, results, thread, messages, threads, run_status, run_calls,
                   invoked, run_outputs, nevents>>
    /\ UNCHANGED nvars

\* The entry of a variant that files every output under the id of the first
\* tool call.
OutputEntryFirstId(output) ==
    [tool_call_id |-> run.tool_calls[1].id, output |-> output]

\* Lines 204-207.
OutputEntry(output) == [tool_call_id |-> ToolCall.id, output |-> output]

\* Lines 198-207: the function runs and returns.
ToolReturns ==
    /\ InToolLoop
    /\ ToolCall.arguments.json
    /\ ToolCall.name \in AvailableFunctions
    /\ Binds(ToolCall.name, ToolCall.arguments.keys)
    /\ invoked' = Append(invoked, ToolCall.name)
    /\ tool_outputs' = Append(tool_outputs, OutputEntry(ToolOutput(ToolReturn(ToolCall.name))))
    /\ tc' = tc + 1
    /\ UNCHANGED <<pc, query, results, thread, messages, run, threads, run_status,
                   run_calls, run_outputs, raised, nevents>>
    /\ UNCHANGED nvars

\* Line 199: the function runs and raises (ncreif_api: lines 52, 55;
\* census_pop: lines 64-65), and nothing catches it.
ToolRaises ==
    /\ InToolLoop
    /\ ToolCall.arguments.json
    /\ ToolCall.name \in AvailableFunctions
    /\ Binds(ToolCall.name, ToolCall.arguments.keys)
    /\ invoked' = Append(invoked, ToolCall.name)
    /\ Raise("ToolException")
    /\ UNCHANGED <<query, results, thread, messages, threads, run_status, run_calls,
                   run_outputs, nevents>>
    /\ UNCHANGED nvars

\* Lines 201-207: a name that is not in available_functions.
ToolUnknown ==
    /\ InToolLoop
    /\ ToolCall.arguments.json
    /\ ToolCall.name \notin AvailableFunctions
    /\ tool_outputs' = Append(tool_outputs, OutputEntry(Placeholder))
    /\ tc' = tc + 1
    /\ UNCHANGED <<pc, query, results, thread, messages, run, threads, run_status,
                   run_calls, invoked, run_outputs, raised, nevents>>
    /\ UNCHANGED nvars

\* Lines 209-213. The provider takes outputs only for a run that waits for
\* them. After the call neither run.required_action nor tool_outputs is read
\* again before lines 187 and 190 rebind them, so the model drops them here.
SubmitToolOutputs ==
    /\ pc = "tools"
    /\ tc > Len(run.tool_calls)
    /\ run_status = "requires_action"
    /\ run_outputs' = Append(run_outputs, tool_outputs)
    /\ invoked' = <<>>
    /\ run_status' = "queued"
    /\ run_calls' = <<>>
    /\ run' = [run EXCEPT !.tool_calls = <<>>]
    /\ tool_outputs' = <<>>
    /\ tc' = 1
    /\ pc' = "sleep"
    /\ UNCHANGED <<query, results, thread, messages, threads, raised, nevents>>
    /\ UNCHANGED nvars

\* Lines 216-217, then 238-241: the messages are listed newest first, and the
\* caller stores the text of the first.
ListMessages ==
    /\ pc = "list"
    /\ messages' = Reverse(threads[thread])
    /\ results' = messages'[1].content
    /\ pc' = "idle"
    /\ ExitLocals
    /\ UNCHANGED <<query, thread, threads, run_status, run_calls, invoked, run_outputs,
                   raised, nevents>>
    /\ UNCHANGED nvars

\* Any call of the client raises when the provider cannot be reached or
\* refuses the request (lines 148, 154, 160, 187, 209, 216).
ClientCallFails ==
    /\ \/ pc \in {"create_thread", "create_message", "create_run", "retrieve", "list"}
       \/ pc = "tools" /\ tc > Len(run.tool_calls)
    /\ Raise("APIError")
    /\ UNCHANGED <<query, results, thread, messages, threads, run_status, run_calls,
                   invoked, run_outputs, nevents>>
    /\ UNCHANGED nvars

\* ---------------------------------------------------------- the provider
\* The run moves on at the provider. required_action is set only while the
\* run waits for tool outputs, and submitted outputs are used up when the
\* run moves on.
ProviderMoves(to) ==
    /\ run_status' = to
    /\ run_calls' = <<>>
    /\ run_outputs' = <<>>
    /\ UNCHANGED <<pc, query, results, thread, messages, run, tc, tool_outputs,
                   threads, invoked, raised, nevents>>
    /\ UNCHANGED nvars

ProviderStarts ==
    /\ run_status = "queued"
    /\ ProviderMoves("in_progress")

ProviderFails ==
    /\ run_status = "in_progress"
    /\ ProviderMoves("failed")

ProviderExpires ==
    /\ run_status \in {"queued", "in_progress", "requires_action"}
    /\ ProviderMoves("expired")

ProviderCancelling ==
    /\ run_status = "in_progress"
    /\ ProviderMoves("cancelling")

ProviderCancelled ==
    /\ run_status = "cancelling"
    /\ ProviderMoves("cancelled")

ProviderRequiresAction(calls) ==
    /\ run_status = "in_progress"
    /\ run_status' = "requires_action"
    /\ run_calls' = calls
    /\ UNCHANGED <<pc, query, results, thread, messages, run, tc, tool_outputs,
                   threads, invoked, run_outputs, raised, nevents>>
    /\ UNCHANGED nvars

ProviderCompletes ==
    /\ run_status = "in_progress"
    /\ run_status' = "completed"
    /\ threads' = [threads EXCEPT ![Len(threads)] =
                      Append(@, [role |-> "assistant", content |-> "answer"])]
    /\ UNCHANGED <<pc, query, results, thread, messages, run, tc, tool_outputs,
                   run_calls, invoked, run_outputs, raised, nevents>>
    /\ UNCHANGED nvars

\* ------------------------------------------------------------ next states
ClientNext ==
    \/ CreateThread
    \/ CreateMessage
    \/ CreateRun
    \/ Sleep
    \/ RetrieveRequiresAction
    \/ RetrieveCompleted
    \/ RetrieveStillRunning
    \/ RetrieveUnhandled
    \/ ToolArgsNotJson
    \/ ToolBindFails
    \/ ToolReturns
    \/ ToolRaises
    \/ ToolUnknown
    \/ SubmitToolOutputs
    \/ ListMessages
    \/ ClientCallFails

ProviderNext ==
    \/ ProviderStarts
    \/ ProviderFails
    \/ ProviderExpires
    \/ ProviderCancelling
    \/ ProviderCancelled
    \/ \E calls \in ToolCallLists : ProviderRequiresAction(calls)
    \/ ProviderCompletes

UserNext == \E q \in Queries : RunQuery(q)

RNext == UserNext \/ ClientNext \/ ProviderNext

Init == NInit /\ RInit

\* ncreif_api alone, called with every argument of the bounded sets.
ApiSpec == Init /\ [][NNext]_vars

\* The app: on_change events, run_thread and the provider.
Spec == Init /\ [][RNext]_vars

\* The app under the scheduling the code has: a handler that has started
\* keeps taking its next step. Nothing is assumed of the user or the provider.
FairSpec == Spec /\ WF_vars(ClientNext)

\* ------------------------------------------------- claims about ncreif_api
NumCbsaFields == IF cbsas = NoneVal THEN 1 ELSE NumCommas(cbsas) + 1

\* |P| x max(1,|G|), counted on the argument strings themselves.
ExpectedSubRequests == (NumCommas(ptypes) + 1) * NumCbsaFields

OnlyStatusResponses == \A k \in 1..Len(responses) : responses[k] \in {"200", "non200"}

\* C1: one call of ncreif_api issues exactly |P| x max(1,|G|) sub-requests,
\* the k-th for the k-th (property type, geography) pair in loop order (no
\* geography filter when cbsas is None), whether the sub-requests answer 200
\* or another status: the loop goes on while fewer have been issued, and
\* only a raising sub-request ends it early.
C1_SubRequestCount ==
    /\ Len(requests) <= ExpectedSubRequests
    /\ n_pc = "loop" => Len(requests) < ExpectedSubRequests
    /\ n_pc = "raised" => ~OnlyStatusResponses
    /\ (n_pc = "returned" \/ OnlyStatusResponses) /\ n_pc # "loop" /\ n_pc # "idle"
          => Len(requests) = ExpectedSubRequests
    /\ \A k \in 1..Len(requests) :
          /\ requests[k].PropertyType = Split(ptypes)[((k - 1) \div NumCbsaFields) + 1]
          /\ IF cbsas = NoneVal
             THEN requests[k].CBSA = NoneVal
             ELSE requests[k].CBSA = Split(cbsas)[((k - 1) % NumCbsaFields) + 1]

\* A call over two property types and two geographies that returned after
\* four sub-requests, one of them answered with a non-200 status.
C1_Witness ==
    /\ n_pc = "returned"
    /\ ptypes = <<"A", ",", "A">> /\ cbsas = <<"1", ",">>
    /\ Len(requests) = 4
    /\ \E k \in 1..Len(responses) : responses[k] = "non200"

RowsOf(k) == UpstreamResult1(requests[k])

HasRow(pt, cb, q) ==
    \E r \in 1..Len(aggregated_data) :
        aggregated_data[r] = [PropertyType |-> pt, CBSA |-> cb, YYYYQ |-> q]

Answerable(k) ==
    /\ responses[k] = "200"
    /\ requests[k].PropertyType \in UpstreamPtypes
    /\ requests[k].CBSA = NoneVal \/ requests[k].CBSA \in UpstreamCbsas

\* C2 (as amended): the quarter-range filter of every sub-request, with or
\* without a geography filter, carries the call's begq and endq and keeps
\* exactly the quarters q with begq <= q <= endq: both boundaries are
\* inclusive, so an answered sub-request contributes the rows of begin_quarter
\* and of end_quarter, and no row outside the range.
C2_QuarterBoundsInclusive ==
    /\ \A k \in 1..Len(requests) :
          /\ requests[k].Begq = begq /\ requests[k].Endq = endq
          /\ \A x \in 1..Len(UpstreamQuarters) :
                InFilter(requests[k], UpstreamQuarters[x])
                   <=> (begq <= UpstreamQuarters[x] /\ UpstreamQuarters[x] <= endq)
          /\ (Answerable(k) /\ begq <= endq) =>
                /\ HasRow(requests[k].PropertyType, requests[k].CBSA, begq)
                /\ HasRow(requests[k].PropertyType, requests[k].CBSA, endq)
    /\ \A r \in 1..Len(aggregated_data) :
          begq <= aggregated_data[r].YYYYQ /\ aggregated_data[r].YYYYQ <= endq

\* A returned call with a geography filter whose result holds the row of the
\* begin quarter and the row of a later end quarter.
C2_Witness ==
    /\ n_pc = "returned"
    /\ begq < endq
    /\ HasRow(<<"A">>, <<"1">>, begq)
    /\ HasRow(<<"A">>, <<"1">>, endq)

\* C2 as stated: a row of begin_quarter is excluded (begin exclusive) and a
\* row of end_quarter is included, in every sub-request.
C2_BeginExclusive ==
    /\ \A k \in 1..Len(requests) :
          /\ ~InFilter(requests[k], begq)
          /\ begq < endq => InFilter(requests[k], endq)
    /\ \A r \in 1..Len(aggregated_data) : aggregated_data[r].YYYYQ # begq

RECURSIVE SuccessfulRows(_)
SuccessfulRows(k) ==
    IF k = 0 THEN <<>>
    ELSE SuccessfulRows(k - 1) \o (IF responses[k] = "200" THEN RowsOf(k) ELSE <<>>)

NumFailed == Cardinality({k \in 1..Len(responses) : responses[k] # "200"})

\* C3 as stated: when the upstream fails (a failure status, no connection, or
\* a malformed payload) for exactly one pair, no exception leaves ncreif_api,
\* every other sub-request is still issued, and the call returns the rows of
\* the successful ones with one failure recorded.
C3_ContinueOnError ==
    (/\ n_pc \in {"returned", "raised"}
     /\ NumFailed = 1
     /\ ExpectedSubRequests >= 2
     /\ \A k \in 1..Len(ptypes_list) : ptypes_list[k] \in UpstreamPtypes) =>
        /\ n_pc = "returned"
        /\ Len(requests) = ExpectedSubRequests
        /\ aggregated_data = SuccessfulRows(Len(responses))
        /\ Len(printed) = 1


\* ------------------------------------------------- claims about run_thread
Malformed(call) ==
    \/ ~call.arguments.json
    \/ call.name \in AvailableFunctions /\ ~Binds(call.name, call.arguments.keys)

\* C4 as stated: a tool call whose name is not in available_functions fails
\* with UnknownToolError: no ordinary output is ever filed for it.
C4_UnknownToolFails ==
    \A i \in 1..Len(tool_outputs) :
        run.tool_calls[i].name \notin AvailableFunctions
            => tool_outputs[i].output = "UnknownToolError"

\* C5 as stated: a tool call with malformed arguments (no JSON, a required
\* parameter missing, an undeclared key) never makes run_thread raise; its
\* output is InvalidArgumentsError and the round goes on.
C5_MalformedArgumentsDowngraded ==
    /\ raised.exc \notin {"JSONDecodeError", "TypeError"}
    /\ \A i \in 1..Len(tool_outputs) :
          Malformed(run.tool_calls[i]) => tool_outputs[i].output = "InvalidArgumentsError"

\* C6 (as amended): run_thread moves IDLE -> polling -> (tools -> polling)* ->
\* DONE. Tools are entered and callables invoked only on status
\* requires_action; a round of tool execution ends either with the
\* submission of its outputs and a return to polling, or with an exception
\* that ends the call; the messages are listed and returned only after the
\* run was seen completed; and nothing is invoked once the call has ended.
C6_StateMachine ==
    [][ /\ (pc' = "tools" /\ pc # "tools") =>
               (pc = "retrieve" /\ run_status = "requires_action")
        /\ (invoked' # invoked /\ invoked' # <<>>) =>
               (pc = "tools" /\ run.status = "requires_action")
        /\ (pc = "tools" /\ pc' # "tools") =>
               \/ pc' = "sleep" /\ run_outputs' = <<tool_outputs>>
               \/ pc' = "idle" /\ raised'.exc # "none"
        /\ (pc' = "list" /\ pc # "list") =>
               (pc = "retrieve" /\ run_status = "completed")
        /\ messages' # messages => (pc = "list" /\ run.status = "completed")
        /\ pc = "idle" => (invoked' = invoked \/ invoked' = <<>>)
        /\ pc = "idle" => pc' \in {"idle", "create_thread", "create_message"}
        /\ (pc \in {"sleep", "retrieve"} /\ pc' # pc) =>
               pc' \in {"sleep", "retrieve", "tools", "list", "idle"}
      ]_vars

\* A round of tool execution on status requires_action has ended with the
\* submission of the output of ncreif_api, and the loop is back at polling.
C6_Witness ==
    /\ pc = "sleep"
    /\ run.status = "requires_action"
    /\ run_status = "queued"
    /\ run_outputs = << <<[tool_call_id |-> "call_a", output |-> "[\"row\"]"]>> >>

\* C6 as stated: every round of tool execution is followed by a submission
\* of the outputs and a return to polling.
C6_EveryExecutionSubmitted ==
    [][ (pc = "tools" /\ pc' # "tools") =>
            (pc' = "sleep" /\ run_outputs' = <<tool_outputs>>) ]_vars

\* C7 as stated: the polling loop does not go on forever over a run that
\* stays queued, in_progress or cancelling.
C7_PollingEnds ==
    ~<>[](pc \in {"sleep", "retrieve"} /\ run_status \in StillRunning)

IsPrefix(a, b) == Len(a) <= Len(b) /\ SubSeq(b, 1, Len(a)) = a

RECURSIVE NumUser(_)
NumUser(t) ==
    IF t = <<>> THEN 0
    ELSE (IF Head(t).role = "user" THEN 1 ELSE 0) + NumUser(Tail(t))

\* C8: one ThreadRunner creates at most one thread and keeps its id from
\* then on; every transcript only grows at its end; a user message enters
\* only through the one messages.create of a run_thread call, carrying the
\* query; and a run is started only right after that message was appended.
C8_TranscriptAppendOnly ==
    [][ /\ Len(threads') <= 1
        /\ thread # NoThread => thread' = thread
        /\ thread' # NoThread => thread' \in 1..Len(threads')
        /\ \A t \in 1..Len(threads) :
              Len(threads') >= t /\ IsPrefix(threads[t], threads'[t])
        /\ (pc = "create_message" /\ pc' = "create_run") =>
              threads'[thread] = Append(threads[thread],
                                        [role |-> "user", content |-> query])
        /\ \A t \in 1..Len(threads) :
              NumUser(threads'[t]) # NumUser(threads[t]) =>
                  (pc = "create_message" /\ pc' = "create_run" /\ t = thread)
        /\ (pc' = "create_run" /\ pc # "create_run") => pc = "create_message"
        /\ (pc = "create_run" /\ pc' = "sleep") =>
              threads[thread][Len(threads[thread])] =
                  [role |-> "user", content |-> query]
      ]_vars

\* The second call, after a first run that ended in an unhandled status,
\* has appended its query to the thread of the first.
C8_Witness ==
    /\ nevents = 2
    /\ pc = "create_run"
    /\ results = NoResults
    /\ thread = 1
    /\ threads = << <<[role |-> "user", content |-> "q1"],
                      [role |-> "user", content |-> "q2"]>> >>

RECURSIVE RegisteredNames(_)
RegisteredNames(calls) ==
    IF calls = <<>> THEN <<>>
    ELSE (IF Head(calls).name \in AvailableFunctions THEN <<Head(calls).name>> ELSE <<>>)
         \o RegisteredNames(Tail(calls))

\* C9: a round over tool calls c1..cn makes at most one submission; the
\* submitted list has n entries, the i-th with the call id of ci and, for an
\* unregistered name, the placeholder output; the callables were invoked one
\* after the other in call order; and a round that ends with an exception
\* submits nothing.
C9_SubmitMatchesCalls ==
    [][ /\ Len(run_outputs') <= 1
        /\ (pc = "tools" /\ pc' = "sleep") =>
              /\ run_outputs' = <<tool_outputs>>
              /\ Len(tool_outputs) = Len(run.tool_calls)
              /\ \A i \in 1..Len(run.tool_calls) :
                    /\ tool_outputs[i].tool_call_id = run.tool_calls[i].id
                    /\ run.tool_calls[i].name \notin AvailableFunctions
                          => tool_outputs[i].output = Placeholder
              /\ invoked = RegisteredNames(run.tool_calls)
        /\ (run_outputs' # run_outputs /\ run_outputs' # <<>>) =>
              (pc = "tools" /\ pc' = "sleep" /\ run_outputs = <<>>)
        /\ (pc = "tools" /\ pc' = "idle") =>
              (run_outputs' = <<>> /\ run_status' = run_status)
        /\ (pc = "tools" /\ pc' = "tools") =>
              /\ tc' \in {tc, tc + 1}
              /\ Len(tool_outputs') = tc' - 1
      ]_vars

\* The provider holds the one submission of a round of two tool calls, the
\* first of an unregistered name.
C9_Witness ==
    /\ pc = "sleep"
    /\ Len(run_outputs) = 1
    /\ Len(run_outputs[1]) = 2
    /\ run_outputs[1][1] = [tool_call_id |-> "call_a", output |-> Placeholder]
    /\ run_outputs[1][2].tool_call_id = "call_b"

Handled == {"requires_action", "completed"} \cup StillRunning

\* C10: on a status other than requires_action, completed, queued,
\* in_progress and cancelling run_thread stops polling and returns nothing:
\* self.messages, self.thread and the provider are left as they are and the
\* result becomes NoResults; and an event with an empty query stores
\* PleaseEnter without a call of the client or of a tool.
C10_UnhandledAndEmptyQuery ==
    [][ /\ (pc = "retrieve" /\ pc' # "retrieve" /\ raised' = raised
               /\ run_status \notin Handled) =>
              /\ pc' = "idle"
              /\ results' = NoResults
              /\ messages' = messages /\ thread' = thread
              /\ threads' = threads /\ run_status' = run_status
        /\ (nevents' = nevents + 1 /\ query' = "") =>
              /\ pc' = "idle"
              /\ results' = PleaseEnter
              /\ invoked' = <<>>
              /\ UNCHANGED <<thread, messages, threads, run_status, run_calls,
                             run_outputs>>
      ]_vars

\* A run ended failed, expired or cancelled: the result is NoResults, and
\* self.messages is still the empty list of the constructor.
C10_Witness ==
    /\ pc = "idle"
    /\ raised = NoException
    /\ results = NoResults
    /\ run_status \in {"failed", "expired", "cancelled"}
    /\ thread = 1
    /\ messages = <<>>

=============================================================================
